---- MODULE Spec2Model ----
(***************************************************************************)
(* Model of the add-on "Save/Import Selection as .blend"                   *)
(* (src/export_import_selection_addon.py).                                 *)
(*                                                                         *)
(* The add-on has two procedures, save_selected_mesh and                   *)
(* import_selected_blend, which read and mutate the host's open document.  *)
(* The document is the variable doc:                                        *)
(*   colls, cname, clib, chide      bpy.data.collections and the fields    *)
(*                                  name, library, hide_viewport           *)
(*   children, cobjs                Collection.children / .objects, as     *)
(*                                  ordered lists; index Root is the       *)
(*                                  active scene's root collection         *)
(*   objs, oname, olib              bpy.data.objects, name and library     *)
(*   sel, active                    selected objects and the active object *)
(*   selIds, outliner               the Outliner's selected collections    *)
(*   mode                           the context's interaction mode         *)
(*   scenes                         names in bpy.data.scenes               *)
(* fs is the file system, call records the last call: its arguments (the   *)
(* path as save_selected_mesh completes it), its return value, the         *)
(* document before it and what was handed to the library write or came     *)
(* out of the library load.                                                *)
(*                                                                         *)
(* Host rules the model relies on (Blender 3.2, the version bl_info        *)
(* names): a datablock's name is unique among the datablocks of the same   *)
(* type and the same library, and a clash is resolved with a numeric       *)
(* suffix; a lookup by name in a collection property ("x in c", c.get(x))  *)
(* matches the name alone, whatever the library; datablocks appended from  *)
(* a file become local copies, datablocks linked from it keep their name   *)
(* and stay tied to the library, and linking the same one twice gives the  *)
(* same datablock; bpy.ops.object.select_all polls for Object mode.        *)
(* Names are short enough that the host's 63 byte limit is never reached.  *)
(***************************************************************************)
EXTENDS Integers, Sequences, FiniteSets, TLC

VARIABLES doc, fs, call

vars == <<doc, fs, call>>

\* ---------------------------------------------------------------- bounds

\* Collections and objects of the initial document.
MaxColls == 3
MaxObjs == 2
\* Datablock identifiers: room for the duplicates of an export and for the
\* datablocks one import of everything adds.
CollPool == 1..(2 * MaxColls)
ObjPool == 1..(2 * MaxObjs)

\* scene.collection, the root collection of the active scene
Root == 0
\* Python's None, as a collection or an object
None == -1

LocalData == "local"

\* ------------------------------------------------------- sequences, names

SeqToSet(s) == {s[i] : i \in DOMAIN s}

InSeq(e, s) == \E i \in DOMAIN s : s[i] = e

RemoveSeq(s, e) == SelectSeq(s, LAMBDA x : x # e)

Min(S) == CHOOSE x \in S : \A y \in S : x <= y

RECURSIVE SortInts(_)
SortInts(S) == IF S = {} THEN <<>> ELSE <<Min(S)>> \o SortInts(S \ {Min(S)})

Reverse(s) == [i \in DOMAIN s |-> s[Len(s) + 1 - i]]

\* The orders in which the host may list a set of datablocks: the model takes
\* two, one the reverse of the other.
Orders(S) == {SortInts(S), Reverse(SortInts(S))}

Digits == {"0", "1", "2", "3", "4", "5", "6", "7", "8", "9"}

NumSuffixes == <<".001", ".002", ".003", ".004">>

\* The name without a trailing ".NNN"
StripNum(n) ==
  LET l == Len(n) IN
  IF l > 4 /\ SubSeq(n, l - 3, l - 3) = "." /\ SubSeq(n, l - 2, l - 2) \in Digits
     /\ SubSeq(n, l - 1, l - 1) \in Digits /\ SubSeq(n, l, l) \in Digits
  THEN SubSeq(n, 1, l - 4) ELSE n

\* The host's resolution of a name clash: the name itself when it is free,
\* else its stem with the first free numeric suffix.
UniqueName(n, used) ==
  IF n \notin used THEN n
  ELSE LET b == StripNum(n)
           k == Min({i \in DOMAIN NumSuffixes : (b \o NumSuffixes[i]) \notin used})
       IN b \o NumSuffixes[k]

UpperAlpha == "ABCDEFGHIJKLMNOPQRSTUVWXYZ"
LowerAlpha == "abcdefghijklmnopqrstuvwxyz"

\* str.lower(), one character
LowerChar(c) ==
  IF \E i \in 1..26 : SubSeq(UpperAlpha, i, i) = c
  THEN LET i == CHOOSE j \in 1..26 : SubSeq(UpperAlpha, j, j) = c IN SubSeq(LowerAlpha, i, i)
  ELSE c

RECURSIVE Lower(_)
Lower(s) == IF Len(s) = 0 THEN "" ELSE LowerChar(SubSeq(s, 1, 1)) \o Lower(SubSeq(s, 2, Len(s)))

EndsWith(s, suf) ==
  Len(s) >= Len(suf) /\ SubSeq(s, Len(s) - Len(suf) + 1, Len(s)) = suf

\* The order the host keeps its datablock lists in: by name, ignoring case
SortChars == ".0123456789_abcdefghijklmnopqrstuvwxyz"

CharRank(c) ==
  LET l == LowerChar(c) IN
  IF \E i \in 1..Len(SortChars) : SubSeq(SortChars, i, i) = l
  THEN CHOOSE i \in 1..Len(SortChars) : SubSeq(SortChars, i, i) = l
  ELSE 0

RECURSIVE NameLess(_, _)
NameLess(a, b) ==
  IF Len(a) = 0 THEN Len(b) > 0
  ELSE IF Len(b) = 0 THEN FALSE
  ELSE LET ra == CharRank(SubSeq(a, 1, 1))
           rb == CharRank(SubSeq(b, 1, 1))
       IN IF ra # rb THEN ra < rb
          ELSE NameLess(SubSeq(a, 2, Len(a)), SubSeq(b, 2, Len(b)))

RECURSIVE SortNames(_)
\* a set of names as the sorted list
SortNames(S) ==
  IF S = {} THEN <<>>
  ELSE LET m == CHOOSE x \in S : \A y \in S \ {x} : NameLess(x, y)
       IN <<m>> \o SortNames(S \ {m})

\* ------------------------------------------------------ the document

\* Names of the collections of library lib, c itself left out
CollNames(d, lib, c) == {d.cname[k] : k \in {x \in d.colls \ {c} : d.clib[x] = lib}}

ObjNames(d, lib) == {d.oname[k] : k \in {x \in d.objs : d.olib[x] = lib}}

\* coll.name = new
SetCollName(d, c, new) ==
  IF new = d.cname[c] THEN d
  ELSE [d EXCEPT !.cname[c] = UniqueName(new, CollNames(d, d.clib[c], c))]

NewCollId(d) == Min(CollPool \ d.colls)

NewObjId(d) == Min(ObjPool \ d.objs)

\* coll.objects.get(name) is not None
ObjectsGet(d, c, name) == \E i \in DOMAIN d.cobjs[c] : d.oname[d.cobjs[c][i]] = name

\* name in coll.children
ChildrenHas(d, c, name) == \E i \in DOMAIN d.children[c] : d.cname[d.children[c][i]] = name

RECURSIVE SceneColls(_, _)
\* the collections below c, c included
SceneColls(d, c) ==
  {c} \cup UNION {SceneColls(d, d.children[c][i]) : i \in DOMAIN d.children[c]}

\* scene.objects: the objects of the root collection and of every collection below it
SceneObjects(d) == UNION {SeqToSet(d.cobjs[c]) : c \in SceneColls(d, Root)}

\* ------------------------------------------------- save_selected_mesh

\* context.temp_override(...).selected_ids, filtered; ids is the Outliner's
\* selection in the order the host lists it
get_selected_collections(d, ids) ==
  IF ~d.outliner THEN <<>> ELSE SelectSeq(ids, LAMBDA c : ~d.chide[c])

RECURSIVE find_parent_collection(_, _, _)
RECURSIVE FindParentFrom(_, _, _, _)
\* the loop of find_parent_collection from the i-th child on
FindParentFrom(d, target, current, i) ==
  IF i > Len(d.children[current]) THEN None
  ELSE LET child == d.children[current][i] IN
       IF child = target THEN current
       ELSE LET result == find_parent_collection(d, target, child) IN
            IF result # None THEN result
            ELSE FindParentFrom(d, target, current, i + 1)

find_parent_collection(d, target, current) == FindParentFrom(d, target, current, 1)

\* step 1: the collections that hold an object with the name of a selected one
ValidColls(d, sel_colls, sel_objs) ==
  SelectSeq(sel_colls,
            LAMBDA c : \E i \in DOMAIN sel_objs : ObjectsGet(d, c, d.oname[sel_objs[i]]))

TempSceneName == "TempExportScene"

\* step 3: bpy.data.scenes.new("TempExportScene")
NewTempScene(d) ==
  LET n == UniqueName(TempSceneName, d.scenes) IN
  [d EXCEPT !.scenes = @ \cup {n}] @@ [tscene |-> n, tchildren |-> <<>>, tobjs |-> <<>>,
                                       dup |-> [c \in CollPool |-> None]]

RECURSIVE RenameTemp(_, _, _)
\* step 4: coll.name = coll.name + "_temp", for the valid collections from the i-th on
RenameTemp(m, valid, i) ==
  IF i > Len(valid) THEN m
  ELSE RenameTemp(SetCollName(m, valid[i], m.cname[valid[i]] \o "_temp"), valid, i + 1)

\* step 5, one collection: a new collection named as the original was, linked
\* to the temporary root, holding the selected objects of the original
Duplicate(m, coll, desired_name, sel_objs) ==
  LET id == NewCollId(m)
      made == [m EXCEPT !.colls = @ \cup {id},
                        !.clib[id] = LocalData,
                        !.chide[id] = FALSE,
                        !.cname[id] = UniqueName(desired_name, CollNames(m, LocalData, id)),
                        !.dup[coll] = id,
                        !.tchildren = Append(@, id)]
  IN [made EXCEPT !.cobjs[id] = SelectSeq(m.cobjs[coll], LAMBDA o : InSeq(o, sel_objs))]

RECURSIVE DuplicateAll(_, _, _, _, _)
DuplicateAll(m, valid, orig_names, sel_objs, i) ==
  IF i > Len(valid) THEN m
  ELSE DuplicateAll(Duplicate(m, valid[i], orig_names[valid[i]], sel_objs),
                    valid, orig_names, sel_objs, i + 1)

\* step 6 without the unlink from the temporary root
ReparentLinkOnly(m, coll, valid) ==
  LET parent == find_parent_collection(m, coll, Root) IN
  IF parent # None /\ InSeq(parent, valid)
  THEN [m EXCEPT !.children[m.dup[parent]] = Append(@, m.dup[coll])]
  ELSE m

\* step 6, one collection: under the duplicate of its parent when the parent is valid
Reparent(m, coll, valid) ==
  LET parent == find_parent_collection(m, coll, Root) IN
  IF parent # None /\ InSeq(parent, valid)
  THEN [m EXCEPT !.tchildren = RemoveSeq(@, m.dup[coll]),
                 !.children[m.dup[parent]] = Append(@, m.dup[coll])]
  ELSE m

RECURSIVE ReparentAll(_, _, _)
ReparentAll(m, valid, i) ==
  IF i > Len(valid) THEN m ELSE ReparentAll(Reparent(m, valid[i], valid), valid, i + 1)

\* step 7, one object: any(dup.objects.get(obj.name) is not None for dup in ...)
InDup(m, obj) == \E c \in CollPool : m.dup[c] # None /\ ObjectsGet(m, m.dup[c], m.oname[obj])

RECURSIVE LinkLoose(_, _, _)
LinkLoose(m, sel_objs, i) ==
  IF i > Len(sel_objs) THEN m
  ELSE LinkLoose(IF InDup(m, sel_objs[i]) THEN m
                 ELSE [m EXCEPT !.tobjs = Append(@, sel_objs[i])],
                 sel_objs, i + 1)

\* steps 3 to 7: the document at the moment of bpy.data.libraries.write
AtWrite(d, valid, sel_objs) ==
  LET orig_names == d.cname
      m3 == NewTempScene(d)
      m4 == RenameTemp(m3, valid, 1)
      m5 == DuplicateAll(m4, valid, orig_names, sel_objs, 1)
      m6 == ReparentAll(m5, valid, 1)
  IN LinkLoose(m6, sel_objs, 1)

DupIds(m) == {m.dup[c] : c \in {x \in CollPool : m.dup[x] # None}}

DocFields ==
  {"colls", "cname", "clib", "chide", "children", "cobjs", "objs", "oname", "olib",
   "sel", "active", "selIds", "outliner", "mode", "scenes"}

\* step 9: the temporary scene and the duplicates are removed
RemoveTemp(m) ==
  LET dups == DupIds(m)
      gone == [m EXCEPT !.scenes = @ \ {m.tscene},
                        !.colls = @ \ dups,
                        !.cname = [c \in CollPool |-> IF c \in dups THEN "" ELSE @[c]],
                        !.children = [c \in DOMAIN @ |->
                                        IF c \in dups THEN <<>>
                                        ELSE SelectSeq(@[c], LAMBDA x : x \notin dups)],
                        !.cobjs = [c \in DOMAIN @ |-> IF c \in dups THEN <<>> ELSE @[c]]]
  IN [f \in DocFields |-> gone[f]]

RECURSIVE RestoreNames(_, _, _, _)
\* step 10: coll.name = orig_name
RestoreNames(d, valid, orig_names, i) ==
  IF i > Len(valid) THEN d
  ELSE RestoreNames(SetCollName(d, valid[i], orig_names[valid[i]]), valid, orig_names, i + 1)

\* steps 9 and 10
AfterWrite(m, valid, orig_names) == RestoreNames(RemoveTemp(m), valid, orig_names, 1)

\* what bpy.data.libraries.write stores of an object: its name, and the
\* library it stays linked to when it is not a local one
ObjRef(m, o) == [name |-> m.oname[o], lib |-> m.olib[o]]

CollEntry(m, c) ==
  [name |-> m.cname[c],
   children |-> [i \in DOMAIN m.children[c] |-> m.cname[m.children[c][i]]],
   objs |-> [i \in DOMAIN m.cobjs[c] |-> ObjRef(m, m.cobjs[c][i])]]

\* the objects the written collections hold
WrittenObjs(m) == SeqToSet(m.tobjs) \cup UNION {SeqToSet(m.cobjs[c]) : c \in DupIds(m)}

\* step 8: the file bpy.data.libraries.write leaves for {temp_scene, temp_root}
\* and the duplicates: the collections and the local objects in the host's
\* order, and the temporary scene's root
FileOf(m) ==
  LET cn == SortNames({m.cname[c] : c \in DupIds(m)})
      on == SortNames({m.oname[o] : o \in {x \in WrittenObjs(m) : m.olib[x] = LocalData}})
  IN [kind |-> "blend",
      colls |-> [i \in DOMAIN cn |->
                   CollEntry(m, CHOOSE c \in DupIds(m) : m.cname[c] = cn[i])],
      objs |-> on,
      scene |-> [children |-> [i \in DOMAIN m.tchildren |-> m.cname[m.tchildren[i]]],
                 objs |-> [i \in DOMAIN m.tobjs |-> ObjRef(m, m.tobjs[i])]]]

\* ------------------------------------------------ files and documents

\* the file the add-on writes and reads, and a library the document may
\* already link objects from
SelPath == "sel.blend"
ExternalLib == "assets.blend"

FilePaths == {"sel", SelPath, "notes.txt", "bad.BLEND"}

ExportPaths == {"sel", SelPath}

NoFile == [kind |-> "none"]

\* the files present before the add-on runs: a text file and a file that is
\* no readable .blend
InitFs ==
  [p \in FilePaths |->
     CASE p = "notes.txt" -> [kind |-> "text"]
       [] p = "bad.BLEND" -> [kind |-> "corrupt"]
       [] OTHER -> NoFile]

BaseNames == "ABCDEFGH"

\* A document of the user's: collection c named cn[c] under the parents
\* par[c] (Root or collections before it), hidden when c = hidden; object o
\* named on[o] of library ol[o] in the collections mem[o]; nothing selected.
\* The variants of the initial documents: collection 2 hidden; collection 2
\* named as the renamed collection 1 would be; object 2 linked from a library
\* under the name of object 1; object 1 in two collections.
MkDoc(par, hidden, cn, mem, on, ol) ==
  LET C == DOMAIN par
      O == DOMAIN mem
  IN [colls |-> C,
      cname |-> [c \in CollPool |-> IF c \in C THEN cn[c] ELSE ""],
      clib |-> [c \in CollPool |-> LocalData],
      chide |-> [c \in CollPool |-> c = hidden],
      children |-> [p \in {Root} \cup CollPool |-> SortInts({c \in C : p \in par[c]})],
      cobjs |-> [p \in {Root} \cup CollPool |-> SortInts({o \in O : p \in mem[o]})],
      objs |-> O,
      oname |-> [o \in ObjPool |-> IF o \in O THEN on[o] ELSE ""],
      olib |-> [o \in ObjPool |-> IF o \in O THEN ol[o] ELSE LocalData],
      sel |-> {},
      active |-> None,
      selIds |-> {},
      outliner |-> TRUE,
      mode |-> "OBJECT",
      scenes |-> {"Scene"}]

RECURSIVE VisibleColls(_, _)
\* the collections shown in the viewport: below the root, none hidden on the way
VisibleColls(d, c) ==
  {c} \cup UNION {VisibleColls(d, k) : k \in {x \in SeqToSet(d.children[c]) : ~d.chide[x]}}

\* the objects the user can have selected
Selectable(d) == UNION {SeqToSet(d.cobjs[c]) : c \in VisibleColls(d, Root)}

\* the user's selection: objects in the viewport, collections in the Outliner
\* (when the screen shows one)
Selected(d, sel, ids, outliner) ==
  [d EXCEPT !.sel = sel, !.active = IF sel = {} THEN None ELSE Min(sel),
            !.selIds = ids, !.outliner = outliner]

CollName(c) == SubSeq(BaseNames, c, c)

ObjName(o) == "O" \o SubSeq(BaseNames, o, o)


\* filepath, with ".blend" added when it is missing
BlendPath(filepath) ==
  IF EndsWith(Lower(filepath), ".blend") THEN filepath ELSE filepath \o ".blend"

\* the libraries the document links datablocks from
Libraries(d) ==
  ({d.clib[c] : c \in d.colls} \cup {d.olib[o] : o \in d.objs}) \ {LocalData}

\* no document: the filler of the unused fields of call
NoDoc == [colls |-> {}]

NoCall ==
  [n |-> 0, op |-> "none", result |-> "none", filepath |-> "", pre |-> NoDoc, valid |-> <<>>,
   sel_objs |-> <<>>, at |-> NoDoc, link_collections |-> FALSE, link_objects |-> FALSE,
   load_tried |-> FALSE, loaded_colls |-> <<>>, loaded_objs |-> <<>>, imported |-> <<>>]

\* the test of line 78 with "or" for "and"
NothingToSaveEither(sel_objs, valid_colls) == sel_objs = <<>> \/ valid_colls = <<>>

\* if not sel_objs and not valid_colls
NothingToSave(sel_objs, valid_colls) == sel_objs = <<>> /\ valid_colls = <<>>

\* save_selected_mesh(filepath), with the selections in the order the host
\* lists them. The path written is not a library the document links from,
\* and the duplicates fit the identifiers of the model.
SaveSelectedMesh(filepath, ids, objs) ==
  LET path == BlendPath(filepath)
      sel_objs == objs
      sel_colls == get_selected_collections(doc, ids)
      valid_colls == ValidColls(doc, sel_colls, sel_objs)
  IN /\ path \in DOMAIN fs
     /\ path \notin Libraries(doc)
     /\ Cardinality(doc.colls) + Len(valid_colls) <= Cardinality(CollPool)
     /\ IF NothingToSave(sel_objs, valid_colls)
        THEN /\ call' = [NoCall EXCEPT !.n = call.n + 1, !.op = "save", !.result = "CANCELLED",
                                       !.filepath = path, !.sel_objs = sel_objs,
                                       !.valid = valid_colls, !.pre = doc]
             /\ UNCHANGED <<doc, fs>>
        ELSE LET m == AtWrite(doc, valid_colls, sel_objs) IN
             /\ fs' = [fs EXCEPT ![path] = FileOf(m)]
             /\ doc' = AfterWrite(m, valid_colls, doc.cname)
             /\ call' = [NoCall EXCEPT !.n = call.n + 1, !.op = "save", !.result = "FINISHED",
                                       !.filepath = path, !.sel_objs = sel_objs,
                                       !.valid = valid_colls, !.pre = doc, !.at = m]

\* EXPORT_OT_save_selection.execute
Export ==
  \E filepath \in ExportPaths, ids \in Orders(doc.selIds), objs \in Orders(doc.sel) :
    SaveSelectedMesh(filepath, ids, objs)

\* ----------------------------------------------- import_selected_blend

\* os.path.exists(filepath)
Exists(filepath) == filepath \in DOMAIN fs /\ fs[filepath] # NoFile

\* the datablock a reference resolves to while loading: a linked datablock
\* already in the document is the same datablock
FindObj(d, name, lib) ==
  LET S == {o \in d.objs : d.oname[o] = name /\ d.olib[o] = lib}
  IN IF S = {} THEN None ELSE CHOOSE o \in S : TRUE

FindColl(d, name, lib) ==
  LET S == {c \in d.colls : d.cname[c] = name /\ d.clib[c] = lib}
  IN IF S = {} THEN None ELSE CHOOSE c \in S : TRUE

AddObj(d, name, lib) ==
  LET id == NewObjId(d) IN
  [d EXCEPT !.objs = @ \cup {id}, !.oname[id] = name, !.olib[id] = lib]

\* one object of the file: appended as a local copy under a free name, or
\* linked from library lib under its own name
LoadObj(d, name, lib) ==
  IF lib = LocalData THEN AddObj(d, UniqueName(name, ObjNames(d, LocalData)), LocalData)
  ELSE IF FindObj(d, name, lib) # None THEN d
  ELSE AddObj(d, name, lib)

\* L is the state of a load: the document, and the datablocks loaded so far
\* for the names of the file
RECURSIVE LoadObjs(_, _, _, _)
\* data_to.objects = data_from.objects
LoadObjs(L, names, lib, i) ==
  IF i > Len(names) THEN L
  ELSE LET d == LoadObj(L.doc, names[i], lib)
           id == IF d = L.doc THEN FindObj(d, names[i], lib) ELSE Min(d.objs \ L.doc.objs)
       IN LoadObjs([L EXCEPT !.doc = d, !.objs = Append(@, id)], names, lib, i + 1)

\* the objects of other libraries the file's collections refer to
ForeignRefs(file) ==
  {r \in UNION {SeqToSet(file.colls[i].objs) : i \in DOMAIN file.colls} : r.lib # LocalData}

RECURSIVE LoadForeign(_, _)
LoadForeign(d, refs) ==
  IF refs = {} THEN d
  ELSE LET r == CHOOSE x \in refs : TRUE
       IN LoadForeign(IF FindObj(d, r.name, r.lib) # None THEN d
                      ELSE AddObj(d, r.name, r.lib),
                      refs \ {r})

RECURSIVE LoadColls(_, _, _, _)
\* data_to.collections = data_from.collections, first the datablocks
LoadColls(L, file, lib, i) ==
  IF i > Len(file.colls) THEN L
  ELSE LET d == L.doc
           name == file.colls[i].name
           old == IF lib = LocalData THEN None ELSE FindColl(d, name, lib)
           id == IF old # None THEN old ELSE NewCollId(d)
           made == IF old # None THEN d
                   ELSE [d EXCEPT !.colls = @ \cup {id},
                                  !.clib[id] = lib,
                                  !.chide[id] = FALSE,
                                  !.cname[id] =
                                     IF lib = LocalData
                                     THEN UniqueName(name, CollNames(d, LocalData, id))
                                     ELSE name]
       IN LoadColls([L EXCEPT !.doc = made, !.colls = Append(@, id),
                              !.fresh = IF old # None THEN @ ELSE @ \cup {id}],
                    file, lib, i + 1)

\* the position of a name of the file among its collections or objects
IndexOf(s, e) == CHOOSE i \in DOMAIN s : s[i] = e

\* then the children and the objects of the collections just made
Populate(L, file) ==
  LET names == [i \in DOMAIN file.colls |-> file.colls[i].name]
      objOf(r) == IF r.lib = LocalData THEN L.objs[IndexOf(file.objs, r.name)]
                  ELSE FindObj(L.doc, r.name, r.lib)
      entry(c) == file.colls[IndexOf(L.colls, c)]
  IN [L EXCEPT
        !.doc.children = [c \in DOMAIN @ |->
                            IF c \in L.fresh
                            THEN [j \in DOMAIN entry(c).children |->
                                    L.colls[IndexOf(names, entry(c).children[j])]]
                            ELSE @[c]],
        !.doc.cobjs = [c \in DOMAIN @ |->
                         IF c \in L.fresh
                         THEN [j \in DOMAIN entry(c).objs |-> objOf(entry(c).objs[j])]
                         ELSE @[c]]]

\* with bpy.data.libraries.load(filepath, link=link): everything the file
\* lists is loaded, linked from the file or appended
Load(d, file, filepath, link) ==
  LET lib == IF link THEN filepath ELSE LocalData
      L0 == [doc |-> LoadForeign(d, ForeignRefs(file)), colls |-> <<>>, objs |-> <<>>,
             fresh |-> {}]
      L1 == LoadObjs(L0, file.objs, lib, 1)
      L2 == LoadColls(L1, file, lib, 1)
  IN Populate(L2, file)

\* the identifiers a load may need
LoadFits(d, file) ==
  /\ Cardinality(d.colls) + Len(file.colls) <= Cardinality(CollPool)
  /\ Cardinality(d.objs) + Len(file.objs) + Cardinality(ForeignRefs(file))
       <= Cardinality(ObjPool)

\* name in scene.objects
SceneHasObject(d, name) == \E o \in SceneObjects(d) : d.oname[o] = name

\* the first loop, one collection. I is the document with imported_objects.
LinkCollection(I, coll) ==
  IF ~ChildrenHas(I.doc, Root, I.doc.cname[coll])
  THEN [I EXCEPT !.doc.children[Root] = Append(@, coll),
                 !.imported = @ \o I.doc.cobjs[coll]]
  ELSE I

RECURSIVE LinkCollections(_, _, _)
LinkCollections(I, colls, i) ==
  IF i > Len(colls) THEN I ELSE LinkCollections(LinkCollection(I, colls[i]), colls, i + 1)

\* the second loop without imported_objects.append(obj)
LinkObjectUnrecorded(I, obj) ==
  IF ~SceneHasObject(I.doc, I.doc.oname[obj])
  THEN [I EXCEPT !.doc.cobjs[Root] = Append(@, obj)]
  ELSE I

\* the second loop, one object
LinkObject(I, obj) ==
  IF ~SceneHasObject(I.doc, I.doc.oname[obj])
  THEN [I EXCEPT !.doc.cobjs[Root] = Append(@, obj), !.imported = Append(@, obj)]
  ELSE I

RECURSIVE LinkObjects(_, _, _)
LinkObjects(I, objs, i) ==
  IF i > Len(objs) THEN I ELSE LinkObjects(LinkObject(I, objs[i]), objs, i + 1)

\* bpy.ops.object.select_all(action='DESELECT') raises unless in Object mode
SelectAllPolls(d) == d.mode = "OBJECT"

\* obj.select_set(True) for each; an object out of the viewport raises, and
\* the exception is dropped
SelectEach(d, objs) == [d EXCEPT !.sel = SeqToSet(objs) \cap Selectable(d)]

\* bpy.context.view_layer.objects.active = imported_objects[0]
SetActive(d, imported_objects) ==
  IF imported_objects # <<>> THEN [d EXCEPT !.active = imported_objects[1]] ELSE d

\* the except branch without its loop over original_selection
RestoreSelectionDropped(d, original_selection) == SelectEach(d, <<>>)

\* the except branch: the selection of before is restored
RestoreSelection(d, original_selection) == SelectEach(d, original_selection)

\* the outcome of import_selected_blend: the document, the return value
\* ("RAISED" when the exception leaves the function), and the lists
ImportOutcome(d, filepath, link_collections, link_objects) ==
  LET out(dd, r, lc, lo, imp, tried) ==
        [doc |-> dd, result |-> r, loaded_colls |-> lc, loaded_objs |-> lo,
         imported |-> imp, load_tried |-> tried]
      original_selection == SortInts(d.sel)
      handler(dd) ==
        IF SelectAllPolls(dd)
        THEN out(RestoreSelection(dd, original_selection), "CANCELLED", <<>>, <<>>, <<>>, TRUE)
        ELSE out(dd, "RAISED", <<>>, <<>>, <<>>, TRUE)
  IN IF ~Exists(filepath) THEN out(d, "CANCELLED", <<>>, <<>>, <<>>, FALSE)
     ELSE IF ~EndsWith(Lower(filepath), ".blend")
     THEN out(d, "CANCELLED", <<>>, <<>>, <<>>, FALSE)
     ELSE IF fs[filepath].kind # "blend" THEN handler(d)
     ELSE LET L == Load(d, fs[filepath], filepath, link_collections \/ link_objects)
              I1 == LinkCollections([doc |-> L.doc, imported |-> <<>>], L.colls, 1)
              I2 == LinkObjects(I1, L.objs, 1)
          IN IF ~SelectAllPolls(I2.doc) THEN handler(I2.doc)
             ELSE out(SetActive(SelectEach(I2.doc, I2.imported), I2.imported),
                      "FINISHED", L.colls, L.objs, I2.imported, TRUE)

\* import_selected_blend(filepath, link_collections, link_objects)
ImportSelectedBlend(filepath, link_collections, link_objects) ==
  LET r == ImportOutcome(doc, filepath, link_collections, link_objects) IN
  /\ (Exists(filepath) /\ fs[filepath].kind = "blend") => LoadFits(doc, fs[filepath])
  /\ doc' = r.doc
  /\ call' = [NoCall EXCEPT !.n = call.n + 1, !.op = "import", !.result = r.result,
                            !.filepath = filepath, !.pre = doc,
                            !.link_collections = link_collections,
                            !.link_objects = link_objects, !.load_tried = r.load_tried,
                            !.loaded_colls = r.loaded_colls, !.loaded_objs = r.loaded_objs,
                            !.imported = r.imported]
  /\ UNCHANGED fs

\* the arguments of the calls: every pair of options on the exported file,
\* the defaults on the other paths
ImportArgs ==
  ({SelPath} \X BOOLEAN \X BOOLEAN) \cup ((FilePaths \ {SelPath}) \X {FALSE} \X {FALSE})

\* IMPORT_OT_selection_blend.execute
Import == \E a \in ImportArgs : ImportSelectedBlend(a[1], a[2], a[3])

\* ------------------------------------------------------ specifications

\* The documents an export starts from. Collection 2 may be named as the
\* renamed collection 1 would be; object 2 may be an object linked from a
\* library, and then may bear the name of object 1.
UserDoc(par, variant, at) ==
  LET hidden == IF variant = "hidden" THEN 2 ELSE None
      cn == [c \in 1..MaxColls |->
               IF variant = "clash" /\ c = 2 THEN CollName(1) \o "_temp" ELSE CollName(c)]
      on == [o \in 1..MaxObjs |->
               IF variant = "twin" /\ o = 2 THEN ObjName(1) ELSE ObjName(o)]
      ol == [o \in 1..MaxObjs |->
               IF variant = "twin" /\ o = 2 THEN ExternalLib ELSE LocalData]
      mem == [o \in 1..MaxObjs |->
                IF variant = "shared" /\ o = 1
                THEN {at[o], IF at[o] = Root THEN 1 ELSE Root}
                ELSE {at[o]}]
  IN MkDoc(par, hidden, cn, mem, on, ol)

InitExport ==
  /\ fs = InitFs
  /\ \E par \in [1..MaxColls -> {P \in SUBSET (0..(MaxColls - 1)) : Cardinality(P) <= 2}] :
       /\ \A c \in 1..MaxColls : \A p \in par[c] : p < c
       /\ par[1] = {Root}
       /\ MaxColls >= 2 => par[2] # {}
       /\ \E variant \in {"plain", "hidden", "clash", "twin", "shared"},
             at \in [1..MaxObjs -> 0..MaxColls] :
            LET d == UserDoc(par, variant, at)
            IN \E sel \in SUBSET Selectable(d), ids \in SUBSET d.colls, outliner \in BOOLEAN :
                 /\ ~outliner => ids = {}
                 /\ doc = Selected(d, sel, ids, outliner)
  /\ call = NoCall

\* one call from each of the documents
NextExport == call.n = 0 /\ Export

SpecExport == InitExport /\ [][NextExport]_vars

\* File > New: the user opens an empty document after an export
EmptyDoc == MkDoc(<<>>, None, <<>>, <<>>, <<>>, <<>>)

NewFile ==
  /\ call.op = "save" /\ call.result = "FINISHED"
  /\ doc' = EmptyDoc
  /\ call' = [NoCall EXCEPT !.n = call.n, !.op = "new"]
  /\ UNCHANGED fs

\* The documents a session of exports and imports starts from: the
\* collections in a chain below the root, or every second one directly below
\* the root; all of them selected in the Outliner, all but the second, or
\* none; the session in Object mode or, for the plain chains with an active
\* object, in Edit mode.
Init ==
  /\ fs = InitFs
  /\ \E chain \in BOOLEAN, variant \in {"plain", "twin"},
        at \in [1..MaxObjs -> 0..MaxColls] :
       LET par == [c \in 1..MaxColls |-> IF chain \/ c % 2 = 0 THEN {c - 1} ELSE {Root}]
           d == UserDoc(par, variant, at)
       IN \E sel \in SUBSET Selectable(d), ids \in {d.colls, d.colls \ {2}, {}},
             mode \in {"OBJECT", "EDIT"} :
            /\ mode = "EDIT" => sel # {} /\ chain /\ variant = "plain"
            /\ doc = [Selected(d, sel, ids, TRUE) EXCEPT !.mode = mode]
  /\ call = NoCall

\* calls per behaviour
MaxCalls == 2

\* A session is a bounded number of calls and ends with the first call that
\* does not return FINISHED.
Running == call.n < MaxCalls /\ call.result \notin {"CANCELLED", "RAISED"}

Next ==
  \/ Running /\ Export
  \/ Running /\ Import
  \/ NewFile

Spec == Init /\ [][Next]_vars

\* --------------------------------------------------- claims on the export

\* the last call was save_selected_mesh and reached the library write
Saved == call.op = "save" /\ call.result = "FINISHED"

\* The valid collections of a document: visible, selected in the Outliner,
\* directly holding a selected object.
ValidSet(d) ==
  {c \in d.selIds : d.outliner /\ ~d.chide[c] /\ SeqToSet(d.cobjs[c]) \cap d.sel # {}}

\* the objects linked into the temporary scene at the write
InTempScene(m) == SeqToSet(m.tobjs) \cup UNION {SeqToSet(m.cobjs[k]) : k \in DupIds(m)}

\* C1: at the library write every selected object is linked in the temporary
\* scene, in the duplicate of each valid collection that holds it or, when no
\* valid collection holds it, in the temporary root; and no object that is
\* not selected is linked into a duplicate or into the temporary root.
C1_ExportCoversSelection ==
  Saved =>
    LET d == call.pre
        m == call.at
        V == ValidSet(d)
    IN /\ \A o \in d.sel :
            /\ \A c \in V : InSeq(o, d.cobjs[c]) =>
                 m.dup[c] # None /\ InSeq(o, m.cobjs[m.dup[c]])
            /\ (\A c \in V : ~InSeq(o, d.cobjs[c])) => InSeq(o, m.tobjs)
       /\ InTempScene(m) \subseteq d.sel

\* C1, the part the code keeps: nothing but selected objects is exported, and
\* a selected object is missing only when a duplicate holds a namesake of it.
C1_OnlySelectionExported ==
  Saved =>
    LET d == call.pre
        m == call.at
    IN /\ InTempScene(m) \subseteq d.sel
       /\ \A o \in d.sel \ InTempScene(m) :
            \E x \in InTempScene(m) : x # o /\ d.oname[x] = d.oname[o]

\* C2: when save_selected_mesh returns FINISHED the document is as it was
\* before the call: the names, the scenes, the collections, the memberships.
C2_DocumentRestored == Saved => doc = call.pre

\* the one file a call wrote
WrittenPaths == {p \in DOMAIN fs : fs[p] # InitFs[p]}

\* C5: save_selected_mesh returns CANCELLED exactly when no object is
\* selected and there is no valid collection, and then it leaves the document
\* and the files alone; otherwise it writes one file and returns FINISHED.
C5_CancelledIffNothingSelected ==
  call.op = "save" =>
    LET d == call.pre
        nothing == d.sel = {} /\ ValidSet(d) = {}
    IN /\ call.result = "CANCELLED" <=> nothing
       /\ nothing => call.at = NoDoc /\ doc = d /\ fs = InitFs
       /\ ~nothing => /\ call.result = "FINISHED"
                      /\ WrittenPaths = {call.filepath}
                      /\ fs[call.filepath].kind = "blend"

\* cancelled although collections are selected in the Outliner
C5_Witness ==
  /\ call.op = "save" /\ call.result = "CANCELLED"
  /\ call.pre.selIds # {} /\ call.pre.outliner

\* the links that make k a child in the temporary scene: parents, with TempRoot
\* standing for the temporary root collection
TempRoot == -2

TempParents(m, k) ==
  (IF InSeq(k, m.tchildren) THEN {TempRoot} ELSE {})
    \cup {x \in DupIds(m) : InSeq(k, m.children[x])}

Count(s, e) == Cardinality({i \in DOMAIN s : s[i] = e})

TempLinks(m, k) ==
  Count(m.tchildren, k)
    + Cardinality({<<x, i>> \in DupIds(m) \X (1..Cardinality(CollPool)) :
                     i \in DOMAIN m.children[x] /\ m.children[x][i] = k})

RECURSIVE TempBelow(_, _)
TempBelow(m, roots) ==
  LET next == roots \cup UNION {SeqToSet(m.children[k]) : k \in roots}
  IN IF next = roots THEN roots ELSE TempBelow(m, next)

C7_SkippedParent ==
  /\ Saved
  /\ \E c \in SeqToSet(call.valid) :
       LET p == find_parent_collection(call.pre, c, Root) IN
       /\ p \notin {None, Root} /\ ~InSeq(p, call.valid)
       /\ InSeq(find_parent_collection(call.pre, p, Root), call.valid)
       /\ InSeq(call.at.dup[c], call.at.tchildren)

Imported == call.op = "import" /\ call.result = "FINISHED"

\* C3: the two options are independent: the collections loaded are linked
\* exactly when link_collections is set, the objects loaded exactly when
\* link_objects is set.
C3_OptionsIndependent ==
  Imported =>
    /\ \A c \in SeqToSet(call.loaded_colls) : (doc.clib[c] # LocalData) <=> call.link_collections
    /\ \A o \in SeqToSet(call.loaded_objs) : (doc.olib[o] # LocalData) <=> call.link_objects

\* C4: after FINISHED every collection and every object loaded from the file
\* is in the active scene.
C4_LoadedIsInScene ==
  Imported =>
    /\ SeqToSet(call.loaded_colls) \subseteq SceneColls(doc, Root)
    /\ SeqToSet(call.loaded_objs) \subseteq SceneObjects(doc)

\* C6: when import_selected_blend returns CANCELLED the selected objects are
\* those selected before; when the file is missing or is not named *.blend,
\* no load is tried and the document is untouched.
C6_CancelledKeepsSelection ==
  (call.op = "import" /\ call.result = "CANCELLED") =>
    /\ doc.sel = call.pre.sel
    /\ (~Exists(call.filepath) \/ ~EndsWith(Lower(call.filepath), ".blend")) =>
         ~call.load_tried /\ doc = call.pre

\* cancelled by the except branch (the load of an unreadable file named
\* *.BLEND raised) with objects selected
C6_Witness ==
  /\ call.op = "import" /\ call.result = "CANCELLED"
  /\ call.load_tried
  /\ call.pre.sel # {}

\* what a call linked into the scene: the collections new below the root
\* with their objects, and the objects new in the root
NewRootColls == SeqToSet(doc.children[Root]) \ SeqToSet(call.pre.children[Root])

NewRootObjs == SeqToSet(doc.cobjs[Root]) \ SeqToSet(call.pre.cobjs[Root])

LinkedByCall == NewRootObjs \cup UNION {SeqToSet(doc.cobjs[c]) : c \in NewRootColls}

\* C8: after FINISHED the selected objects are exactly the objects of the
\* newly linked collections and the newly linked objects, nothing selected
\* before stays selected, the active object is the first imported one, and
\* with nothing imported it is unchanged and nothing is selected.
C8_SelectionIsImported ==
  Imported =>
    /\ doc.sel = LinkedByCall
    /\ doc.sel \cap call.pre.sel = {}
    /\ SeqToSet(call.imported) = LinkedByCall
    /\ call.imported # <<>> => doc.active = call.imported[1]
    /\ call.imported = <<>> => doc.active = call.pre.active /\ doc.sel = {}

\* C8, amended: an object that was selected stays selected only when the call
\* imports it; the rest as stated.
C8_SelectionIsImportedOrKept ==
  Imported =>
    /\ doc.sel = LinkedByCall
    /\ doc.sel \cap call.pre.sel \subseteq SeqToSet(call.imported)
    /\ SeqToSet(call.imported) = LinkedByCall
    /\ call.imported # <<>> => doc.active = call.imported[1]
    /\ call.imported = <<>> => doc.active = call.pre.active /\ doc.sel = {}

\* C9: a file written by save_selected_mesh and imported into an empty
\* scene gives the exported hierarchy back: a collection exported below the
\* temporary root is a child of the scene's root, a collection exported as
\* the child of another is its child and not a child of the root, and each
\* object is in exactly the counterparts of the collections it was exported in.
\* (Every collection of the file holds an object: each was valid.)
C9_RoundTrip ==
  (/\ Imported
   /\ call.pre = EmptyDoc
   /\ \A i \in DOMAIN fs[call.filepath].colls : fs[call.filepath].colls[i].objs # <<>>) =>
    LET file == fs[call.filepath]
        coll(i) == call.loaded_colls[i]
        rootc == SeqToSet(doc.children[Root])
    IN /\ \A i \in DOMAIN file.colls :
            InSeq(file.colls[i].name, file.scene.children) => coll(i) \in rootc
       /\ \A i, j \in DOMAIN file.colls :
            InSeq(file.colls[j].name, file.colls[i].children) =>
              InSeq(coll(j), doc.children[coll(i)]) /\ coll(j) \notin rootc
       /\ \A k \in DOMAIN file.objs :
            LET r == [name |-> file.objs[k], lib |-> LocalData]
                o == call.loaded_objs[k]
            IN {c \in doc.colls \cup {Root} : InSeq(o, doc.cobjs[c])} =
                 {coll(i) : i \in {x \in DOMAIN file.colls : InSeq(r, file.colls[x].objs)}}
                   \cup (IF InSeq(r, file.scene.objs) THEN {Root} ELSE {})

\* an import that keeps one selected object selected, because it imported
\* it, and deselects another
C8_Witness ==
  /\ Imported
  /\ doc.sel \cap call.pre.sel # {}
  /\ call.pre.sel \ doc.sel # {}
  /\ doc.active = call.imported[1]

====
